---------------------------- MODULE Spec2Model ----------------------------
(***************************************************************************)
(* A model of the password-based envelope decryption routine               *)
(* (deployment/decryptJSON.py, decrypt_json_with_password) and of the      *)
(* request cache of the v2 analysis endpoint (app.py).                     *)
(*                                                                         *)
(* Bytes are integers 0..255, byte strings are sequences of bytes, text is *)
(* a sequence of code points.  The cryptographic primitives of the         *)
(* `cryptography` package are modelled ideally: PBKDF2 is a symbolic,      *)
(* injective function of its inputs, and the GCM tag is a digest of        *)
(* (key, nonce, ciphertext) that differs whenever one byte of its input    *)
(* differs.                                                                *)
(***************************************************************************)
EXTENDS Integers, Sequences, FiniteSets, TLC

(***************************************************************************)
(* Bounds of the model.                                                    *)
(***************************************************************************)
\* longest plaintext (in bytes) the envelope producer encrypts
MaxPlainLen == 2
\* capacity of the request cache (app.py sets 100; the model scales it down)
MAX_CACHE_SIZE == 2
\* number of distinct cache keys the clients ask for, beyond the capacity
ExtraKeys == 2
\* number of requests each handler thread serves
MaxRequests == 2

(***************************************************************************)
(* Byte-level helpers.                                                     *)
(***************************************************************************)
RECURSIVE XorN(_, _, _)
XorN(a, b, n) ==
    IF n = 0 THEN 0
    ELSE (((a % 2) + (b % 2)) % 2) + 2 * XorN(a \div 2, b \div 2, n - 1)

Xor8(a, b) == XorN(a, b, 8)

FlipBit(byte, bit) == Xor8(byte, 2 ^ bit)

FlipAt(bytes, pos, bit) ==
    [i \in 1..Len(bytes) |-> IF i = pos THEN FlipBit(bytes[i], bit) ELSE bytes[i]]

Zeros(n) == [i \in 1..n |-> 0]

Front(s) == SubSeq(s, 1, Len(s) - 1)

Last(s) == s[Len(s)]

RECURSIVE SeqsUpTo(_, _)
SeqsUpTo(S, n) ==
    IF n = 0 THEN {<<>>}
    ELSE LET shorter == SeqsUpTo(S, n - 1)
         IN  shorter \cup {Append(s, x) : s \in shorter, x \in S}

(***************************************************************************)
(* Text encodings: str.encode('utf-8') and bytes.decode('utf-8').          *)
(***************************************************************************)
Utf8EncodeChar(cp) ==
    IF cp < 128 THEN <<cp>>
    ELSE IF cp < 2048 THEN <<192 + (cp \div 64), 128 + (cp % 64)>>
    ELSE IF cp < 65536
         THEN <<224 + (cp \div 4096), 128 + ((cp \div 64) % 64), 128 + (cp % 64)>>
    ELSE <<240 + (cp \div 262144), 128 + ((cp \div 4096) % 64),
           128 + ((cp \div 64) % 64), 128 + (cp % 64)>>

RECURSIVE Utf8Encode(_)
Utf8Encode(text) ==
    IF text = <<>> THEN <<>>
    ELSE Utf8EncodeChar(Head(text)) \o Utf8Encode(Tail(text))

\* number of continuation bytes a lead byte announces, -1 for an invalid lead
Utf8Need(b) ==
    IF b < 128 THEN 0
    ELSE IF b >= 194 /\ b <= 223 THEN 1
    ELSE IF b >= 224 /\ b <= 239 THEN 2
    ELSE IF b >= 240 /\ b <= 244 THEN 3
    ELSE -1

Utf8SecondOk(lead, second) ==
    /\ second >= 128 /\ second <= 191
    /\ (lead = 224 => second >= 160)
    /\ (lead = 237 => second <= 159)
    /\ (lead = 240 => second >= 144)
    /\ (lead = 244 => second <= 143)

Utf8Payload(lead, need) ==
    IF need = 0 THEN lead
    ELSE IF need = 1 THEN lead - 192
    ELSE IF need = 2 THEN lead - 224
    ELSE lead - 240

RECURSIVE Utf8Fold(_, _, _)
Utf8Fold(acc, bytes, n) ==
    IF n = 0 THEN acc
    ELSE Utf8Fold((acc * 64) + (Head(bytes) - 128), Tail(bytes), n - 1)

Utf8Cons(cp, tl) ==
    [ok |-> tl.ok, text |-> IF tl.ok THEN <<cp>> \o tl.text ELSE <<>>]

\* [ok |-> BOOLEAN, text |-> code points]; ok = FALSE is UnicodeDecodeError
RECURSIVE Utf8Decode(_)
Utf8Decode(bytes) ==
    IF bytes = <<>> THEN [ok |-> TRUE, text |-> <<>>]
    ELSE LET lead == Head(bytes)
             need == Utf8Need(lead)
             rest == Tail(bytes)
         IN  IF need = -1 \/ Len(rest) < need
             THEN [ok |-> FALSE, text |-> <<>>]
             ELSE IF need > 0 /\
                     (~Utf8SecondOk(lead, rest[1]) \/
                      \E i \in 2..need : rest[i] < 128 \/ rest[i] > 191)
             THEN [ok |-> FALSE, text |-> <<>>]
             ELSE Utf8Cons(Utf8Fold(Utf8Payload(lead, need), rest, need),
                           Utf8Decode(SubSeq(rest, need + 1, Len(rest))))

(***************************************************************************)
(* Base64.  A character of a base64 string is its index in the alphabet    *)
(* (0..63), PadChar for '=', OtherChar for an ASCII character outside the  *)
(* alphabet, NonAscii for a character outside ASCII.                       *)
(***************************************************************************)
PadChar == 64
OtherChar == 65
NonAscii == 66

\* base64.b64encode: three bytes make four characters, the last group is
\* padded
ByteAt(bytes, i) == IF i <= Len(bytes) THEN bytes[i] ELSE 0

B64Encode(bytes) ==
    [k \in 1..(4 * ((Len(bytes) + 2) \div 3)) |->
        LET g == 3 * ((k - 1) \div 4)
            r == (k - 1) % 4
        IN  IF r = 0 THEN ByteAt(bytes, g + 1) \div 4
            ELSE IF r = 1
                 THEN ((ByteAt(bytes, g + 1) % 4) * 16)
                        + (ByteAt(bytes, g + 2) \div 16)
            ELSE IF r = 2
                 THEN IF g + 2 > Len(bytes) THEN PadChar
                      ELSE ((ByteAt(bytes, g + 2) % 16) * 4)
                             + (ByteAt(bytes, g + 3) \div 64)
            ELSE IF g + 3 > Len(bytes) THEN PadChar
                 ELSE ByteAt(bytes, g + 3) % 64]

\* binascii.a2b_base64 in its default (non-strict) mode.  Its loop keeps the
\* position in the current quad (the data characters read so far, modulo 4)
\* and the pads seen since the last data character: characters outside the
\* alphabet are skipped; a pad at position 2 or 3 of a quad that completes
\* the quad ends the input; any other pad is skipped; an input that ends
\* inside a quad is an error.
IsData(c) == c < PadChar

QuadPos(chars, i) == Cardinality({j \in 1..(i - 1) : IsData(chars[j])}) % 4

PadRun(chars, i) ==
    Cardinality({j \in 1..i : /\ chars[j] = PadChar
                              /\ \A m \in j..i : ~IsData(chars[m])})

EndsInput(chars, i) ==
    /\ chars[i] = PadChar
    /\ QuadPos(chars, i) >= 2
    /\ QuadPos(chars, i) + PadRun(chars, i) >= 4

Least(S) == CHOOSE i \in S : \A j \in S : i <= j

\* the data characters the loop consumes
Sextets(chars, ends) ==
    SelectSeq(IF ends = {} THEN chars ELSE SubSeq(chars, 1, Least(ends)), IsData)

\* the bytes of a run of sextets, an incomplete last byte dropped
SextetBytes(d) ==
    [k \in 1..((Len(d) * 6) \div 8) |->
        LET g == 4 * ((k - 1) \div 3)
        IN  IF (k - 1) % 3 = 0 THEN (d[g + 1] * 4) + (d[g + 2] \div 16)
            ELSE IF (k - 1) % 3 = 1
                 THEN ((d[g + 2] % 16) * 16) + (d[g + 3] \div 4)
            ELSE ((d[g + 3] % 4) * 64) + d[g + 4]]

QuadsToBytes(d, ended) ==
    IF ~ended /\ Len(d) % 4 = 1
    THEN [ok |-> FALSE, bytes |-> <<>>, err |-> "Invalid base64-encoded string"]
    ELSE IF ~ended /\ Len(d) % 4 # 0
    THEN [ok |-> FALSE, bytes |-> <<>>, err |-> "Incorrect padding"]
    ELSE [ok |-> TRUE, bytes |-> SextetBytes(d), err |-> ""]

A2BEnding(chars, ends) == QuadsToBytes(Sextets(chars, ends), ends # {})

A2B(chars) == A2BEnding(chars, {i \in 1..Len(chars) : EndsInput(chars, i)})

Decoded(r) ==
    [ok |-> r.ok, bytes |-> r.bytes,
     exc |-> IF r.ok THEN "" ELSE "binascii.Error", err |-> r.err]

\* base64.b64decode(s) for a str s: the text must be ASCII, then a2b_base64
b64decode(chars) ==
    IF \E i \in 1..Len(chars) : chars[i] = NonAscii
    THEN [ok |-> FALSE, bytes |-> <<>>, exc |-> "ValueError",
          err |-> "string argument should contain only ASCII characters"]
    ELSE Decoded(A2B(chars))

(***************************************************************************)
(* Key derivation and the AEAD cipher (the `cryptography` package).        *)
(***************************************************************************)
\* length=32 and iterations=480000 of the PBKDF2HMAC the routine builds
KDF_LENGTH == 32
KDF_ITERATIONS == 480000
\* AES-GCM: the tag is the last 16 bytes of the sealed data, a nonce has
\* between 8 and 128 bytes
TagLen == 16
NonceMin == 8
NonceMax == 128

NoKey == [pw |-> <<>>, salt |-> <<>>, iterations |-> 0, length |-> 0]

\* PBKDF2-HMAC-SHA256, ideal: the key is determined by, and determines, its inputs
PBKDF2HMAC(password_bytes, salt, iterations, length) ==
    [pw |-> password_bytes, salt |-> salt, iterations |-> iterations,
     length |-> length]

\* a polynomial digest modulo 2^15: two inputs that differ in one byte
\* have different digests
DigestMod == 32768

RECURSIVE PowMod(_, _)
PowMod(b, n) ==
    IF n = 0 THEN 1
    ELSE IF n % 2 = 0
         THEN LET h == PowMod(b, n \div 2) IN (h * h) % DigestMod
    ELSE (b * PowMod(b, n - 1)) % DigestMod

RECURSIVE DigestRange(_, _, _)
DigestRange(s, lo, hi) ==
    IF lo = hi THEN (s[lo] + 1) % DigestMod
    ELSE LET mid == (lo + hi) \div 2
         IN  ((DigestRange(s, lo, mid) * PowMod(31, hi - mid))
                + DigestRange(s, mid + 1, hi)) % DigestMod

Digest(s) == IF s = <<>> THEN 0 ELSE DigestRange(s, 1, Len(s))

KeyMaterial(key) ==
    key.pw \o <<256>> \o key.salt \o <<256, key.iterations % DigestMod, key.length>>

\* the keystream of (key, nonce), from its first block
Keystream(block, i) == (block + (7 * i)) % 256

CtrWith(block, data) ==
    [i \in 1..Len(data) |-> Xor8(data[i], Keystream(block, i))]

\* counter mode: the same transformation encrypts and decrypts
GcmCtr(key, nonce, data) ==
    CtrWith(Digest(KeyMaterial(key) \o <<256>> \o nonce), data)

\* the TagLen bytes of a digest, which determine it
TagBytes(h) ==
    [j \in 1..TagLen |->
        IF j % 2 = 1 THEN ((h % 256) + j) % 256
        ELSE ((h \div 256) + j) % 256]

GcmTag(key, nonce, ciphertext) ==
    TagBytes(Digest(KeyMaterial(key) \o <<256>> \o nonce \o <<256>> \o ciphertext))

Seal(key, nonce, ciphertext) == ciphertext \o GcmTag(key, nonce, ciphertext)

\* AESGCM(key).encrypt(nonce, data, None): ciphertext followed by the tag
AESGCM_encrypt(key, nonce, data) == Seal(key, nonce, GcmCtr(key, nonce, data))

TagVerifies(key, nonce, data) ==
    /\ Len(data) >= TagLen
    /\ SubSeq(data, Len(data) - TagLen + 1, Len(data))
         = GcmTag(key, nonce, SubSeq(data, 1, Len(data) - TagLen))

\* a decryptor that releases the plaintext whatever the tag
AESGCM_decrypt_unverified(key, nonce, data) ==
    IF Len(nonce) < NonceMin \/ Len(nonce) > NonceMax
    THEN [ok |-> FALSE, exc |-> "ValueError",
          err |-> "Nonce must be between 8 and 128 bytes", bytes |-> <<>>]
    ELSE IF Len(data) < TagLen
    THEN [ok |-> FALSE, exc |-> "InvalidTag", err |-> "", bytes |-> <<>>]
    ELSE [ok |-> TRUE, exc |-> "", err |-> "",
          bytes |-> GcmCtr(key, nonce, SubSeq(data, 1, Len(data) - TagLen))]

\* AESGCM(key).decrypt(nonce, data, None)
AESGCM_decrypt(key, nonce, data) ==
    IF Len(nonce) < NonceMin \/ Len(nonce) > NonceMax
    THEN [ok |-> FALSE, exc |-> "ValueError",
          err |-> "Nonce must be between 8 and 128 bytes", bytes |-> <<>>]
    ELSE IF ~TagVerifies(key, nonce, data)
    THEN [ok |-> FALSE, exc |-> "InvalidTag", err |-> "", bytes |-> <<>>]
    ELSE [ok |-> TRUE, exc |-> "", err |-> "",
          bytes |-> GcmCtr(key, nonce, SubSeq(data, 1, Len(data) - TagLen))]

(***************************************************************************)
(* The envelope and the file that holds it.                                *)
(***************************************************************************)
FieldNames == <<"salt", "nonce", "tag", "ciphertext">>

FieldSet == {FieldNames[i] : i \in 1..Len(FieldNames)}

\* the envelope producer: same KDF, same cipher, tag stored apart
Detached(salt, nonce, sealed) ==
    [salt |-> salt, nonce |-> nonce,
     tag |-> SubSeq(sealed, Len(sealed) - TagLen + 1, Len(sealed)),
     ciphertext |-> SubSeq(sealed, 1, Len(sealed) - TagLen)]

Envelope(plaintext, password, salt, nonce, iterations) ==
    Detached(salt, nonce,
        AESGCM_encrypt(
            PBKDF2HMAC(Utf8Encode(password), salt, iterations, KDF_LENGTH),
            nonce, plaintext))

JsonString(chars) == [t |-> "string", chars |-> chars]

JsonNumber == [t |-> "number", chars |-> <<>>]

\* a JSON object with the given members (a function from names to values)
JsonObject(members) == [t |-> "object", members |-> members]

JsonArray == [t |-> "array", members |-> <<>>]

EnvelopeJson(env) ==
    JsonObject([k \in FieldSet |-> JsonString(B64Encode(env[k]))])

\* a file: absent, unreadable, or present with text that is JSON or is not
AbsentFile == [state |-> "absent", json |-> FALSE, doc |-> JsonArray]

DeniedFile == [state |-> "denied", json |-> FALSE, doc |-> JsonArray]

GarbageFile == [state |-> "present", json |-> FALSE, doc |-> JsonArray]

JsonFile(doc) == [state |-> "present", json |-> TRUE, doc |-> doc]

Without(doc, k) ==
    JsonObject([f \in DOMAIN doc.members \ {k} |-> doc.members[f]])

WithMember(doc, k, v) ==
    JsonObject([f \in DOMAIN doc.members |-> IF f = k THEN v ELSE doc.members[f]])

(***************************************************************************)
(* The inputs the model explores.  A file is made from a genuine envelope  *)
(* (plaintext and password of the producer, 16-byte salt, 12-byte nonce)   *)
(* by one of the changes below.                                            *)
(***************************************************************************)
\* "pw1234" and "wrong" as code points
Pw1234 == <<112, 119, 49, 50, 51, 52>>

PwWrong == <<119, 114, 111, 110, 103>>

Passwords == {Pw1234, PwWrong}

\* 'h', and the two bytes of U+00E9: each alone is invalid UTF-8
PlainBytes == {104, 195, 169}

Plaintexts == SeqsUpTo(PlainBytes, MaxPlainLen)

Salt16 == Zeros(16)

Nonce12 == Zeros(12)

Genuine(pt, pw) == Envelope(pt, pw, Salt16, Nonce12, KDF_ITERATIONS)

SourceChanges == {"absent", "denied", "garbage", "array"}

MissingField == {"no_salt", "no_nonce", "no_tag", "no_ciphertext"}

EncodingChanges == {"number_salt", "pad_tag", "nonascii_nonce", "noise_ct"}

BitFlips == {"flip_ct", "flip_ct_last", "flip_tag", "flip_tag_last",
             "flip_nonce", "flip_salt"}

LengthChanges == {"nonce0", "nonce7", "nonce13", "salt8",
                  "tag15", "tag17", "tag3", "ct_extra"}

BoundaryMoves == {"shift_left", "shift_right"}

ProducerChoices == {"made_salt8", "made_nonce13", "made_iterations"}

Variants ==
    {"genuine"} \cup SourceChanges \cup MissingField \cup EncodingChanges
      \cup BitFlips \cup LengthChanges \cup BoundaryMoves \cup ProducerChoices

\* a change that needs a ciphertext byte applies to a non-empty plaintext only
Applicable(v, pt) ==
    v \in {"flip_ct", "flip_ct_last", "shift_right"} => pt # <<>>

\* the envelope (as bytes) a variant stores
Changed(v, e, pt, pw) ==
        CASE v = "flip_ct" -> [e EXCEPT !.ciphertext = FlipAt(@, 1, 0)]
          [] v = "flip_ct_last" -> [e EXCEPT !.ciphertext = FlipAt(@, Len(@), 7)]
          [] v = "flip_tag" -> [e EXCEPT !.tag = FlipAt(@, 1, 7)]
          [] v = "flip_tag_last" -> [e EXCEPT !.tag = FlipAt(@, TagLen, 0)]
          [] v = "flip_nonce" -> [e EXCEPT !.nonce = FlipAt(@, 3, 4)]
          [] v = "flip_salt" -> [e EXCEPT !.salt = FlipAt(@, 16, 1)]
          [] v = "nonce0" -> [e EXCEPT !.nonce = <<>>]
          [] v = "nonce7" -> [e EXCEPT !.nonce = SubSeq(@, 1, NonceMin - 1)]
          [] v = "nonce13" -> [e EXCEPT !.nonce = Append(@, 0)]
          [] v = "salt8" -> [e EXCEPT !.salt = SubSeq(@, 1, 8)]
          [] v = "tag15" -> [e EXCEPT !.tag = Front(@)]
          [] v = "tag17" -> [e EXCEPT !.tag = Append(@, 0)]
          [] v = "tag3" -> [e EXCEPT !.tag = SubSeq(@, 1, 3)]
          [] v = "ct_extra" -> [e EXCEPT !.ciphertext = Append(@, 0)]
          [] v = "shift_left" ->
               [e EXCEPT !.ciphertext = Append(@, e.tag[1]), !.tag = Tail(@)]
          [] v = "shift_right" ->
               [e EXCEPT !.ciphertext = Front(@),
                         !.tag = <<Last(e.ciphertext)>> \o @]
          [] v = "made_salt8" ->
               Envelope(pt, pw, Zeros(8), Nonce12, KDF_ITERATIONS)
          [] v = "made_nonce13" ->
               Envelope(pt, pw, Salt16, Zeros(13), KDF_ITERATIONS)
          [] v = "made_iterations" ->
               Envelope(pt, pw, Salt16, Nonce12, 100000)
          [] OTHER -> e

VariantEnvelope(v, pt, pw) == Changed(v, Genuine(pt, pw), pt, pw)

Stored(v, doc) ==
        CASE v = "absent" -> AbsentFile
          [] v = "denied" -> DeniedFile
          [] v = "garbage" -> GarbageFile
          [] v = "array" -> JsonFile(JsonArray)
          [] v = "no_salt" -> JsonFile(Without(doc, "salt"))
          [] v = "no_nonce" -> JsonFile(Without(doc, "nonce"))
          [] v = "no_tag" -> JsonFile(Without(doc, "tag"))
          [] v = "no_ciphertext" -> JsonFile(Without(doc, "ciphertext"))
          [] v = "number_salt" -> JsonFile(WithMember(doc, "salt", JsonNumber))
          [] v = "pad_tag" ->
               JsonFile(WithMember(doc, "tag",
                   JsonString(Front(doc.members["tag"].chars))))
          [] v = "nonascii_nonce" ->
               JsonFile(WithMember(doc, "nonce",
                   JsonString(Append(doc.members["nonce"].chars, NonAscii))))
          [] v = "noise_ct" ->
               JsonFile(WithMember(doc, "ciphertext",
                   JsonString(<<OtherChar>> \o doc.members["ciphertext"].chars
                                \o <<OtherChar>>)))
          [] OTHER -> JsonFile(doc)

VariantFile(v, pt, pw) == Stored(v, EnvelopeJson(VariantEnvelope(v, pt, pw)))

(***************************************************************************)
(* State.                                                                  *)
(***************************************************************************)
Calls == {1, 2}

Paths == {"a", "b"}

VARIABLES
    fs,            \* path -> file
    made,          \* how the files were made (ghost): plaintext, password of
                   \* the producer, and the variant stored at each path
    path,          \* call -> encrypted_json_path
    password,      \* call -> password
    pc,            \* call -> the statement the call is at
    handle,        \* call -> state of the file object f
    frame,         \* call -> its local variables
    result,        \* call -> what the call returned or raised
    printed,       \* call -> the lines the call printed
    trace,         \* call -> the library calls it made, in order
    overlapped,    \* some call took a step while another was in progress
    request_cache, \* app.py: the keys of request_cache, oldest first
    stored,        \* app.py: cache key -> the response stored for it
    thread,        \* app.py: handler thread -> its position and locals
    nextResponse   \* app.py: a counter that makes each analysis distinct

decryptVars == <<fs, made, path, password, pc, handle, frame, result, printed,
                 trace, overlapped>>

cacheVars == <<request_cache, stored, thread, nextResponse>>

vars == <<decryptVars, cacheVars>>

NoDoc == [t |-> "none", members |-> <<>>]

EmptyFrame ==
    [data |-> NoDoc, salt |-> <<>>, nonce |-> <<>>, tag |-> <<>>,
     ciphertext |-> <<>>, key |-> NoKey, decrypted_data |-> <<>>]

NoResult ==
    [kind |-> "none", exc |-> "", err |-> "", handler |-> "", line |-> 0,
     value |-> <<>>]

(***************************************************************************)
(* decrypt_json_with_password: the statements of the try block.            *)
(***************************************************************************)
Failure(exc, err) == [ok |-> FALSE, exc |-> exc, err |-> err, value |-> NoDoc]

\* data.get(k, '') in place of data[k]
LookupDefault(doc, k) ==
    IF doc.t # "object"
    THEN Failure("TypeError", "list indices must be integers or slices, not str")
    ELSE IF k \notin DOMAIN doc.members
    THEN [ok |-> TRUE, exc |-> "", err |-> "", value |-> JsonString(<<>>)]
    ELSE [ok |-> TRUE, exc |-> "", err |-> "", value |-> doc.members[k]]

\* data[k]
Lookup(doc, k) ==
    IF doc.t # "object"
    THEN Failure("TypeError", "list indices must be integers or slices, not str")
    ELSE IF k \notin DOMAIN doc.members
    THEN Failure("KeyError", k)
    ELSE [ok |-> TRUE, exc |-> "", err |-> "", value |-> doc.members[k]]

\* base64.b64decode(data[k]): [ok, exc, err, bytes, decoded], decoded telling
\* whether b64decode was called
DecodedValue(r) ==
    [ok |-> r.ok, exc |-> r.exc, err |-> r.err, bytes |-> r.bytes,
     decoded |-> TRUE]

DecodeValue(v) ==
    IF ~v.ok
    THEN [ok |-> FALSE, exc |-> v.exc, err |-> v.err, bytes |-> <<>>,
          decoded |-> FALSE]
    ELSE IF v.value.t # "string"
    THEN [ok |-> FALSE, exc |-> "TypeError",
          err |-> "argument should be a bytes-like object or ASCII string",
          bytes |-> <<>>, decoded |-> TRUE]
    ELSE DecodedValue(b64decode(v.value.chars))

LookupAndDecode(doc, k) == DecodeValue(Lookup(doc, k))

RejectLength(k, r) ==
    IF r.ok /\ ((k = "nonce" /\ Len(r.bytes) # 12) \/
                (k = "tag" /\ Len(r.bytes) # TagLen))
    THEN [r EXCEPT !.ok = FALSE, !.exc = "ValueError",
                   !.err = "bad field length", !.bytes = <<>>]
    ELSE r

\* a codec that rejects a nonce or a tag of unconventional length
DecodeFieldChecked(doc, k) == RejectLength(k, LookupAndDecode(doc, k))

DecodeField(doc, k) == LookupAndDecode(doc, k)

\* lines 32-35: the four fields in order, stopping at the first exception
RECURSIVE DecodeFrom(_, _, _, _)
DecodeNext(doc, i, vals, calls, r) ==
    IF ~r.ok
    THEN [ok |-> FALSE, exc |-> r.exc, err |-> r.err, line |-> 31 + i,
          vals |-> vals,
          calls |-> IF r.decoded THEN Append(calls, "b64decode") ELSE calls]
    ELSE DecodeFrom(doc, i + 1, [vals EXCEPT ![FieldNames[i]] = r.bytes],
                    Append(calls, "b64decode"))

DecodeFrom(doc, i, vals, calls) ==
    IF i > Len(FieldNames)
    THEN [ok |-> TRUE, exc |-> "", err |-> "", line |-> 0, vals |-> vals,
          calls |-> calls]
    ELSE DecodeNext(doc, i, vals, calls, DecodeField(doc, FieldNames[i]))

DecodeFields(doc) ==
    DecodeFrom(doc, 1, [k \in FieldSet |-> <<>>], <<>>)

\* a derivation with another iteration count than the producer's
DerivedKeyFewerIterations(pw, salt) ==
    PBKDF2HMAC(Utf8Encode(pw), salt, 100000, KDF_LENGTH)

\* lines 39-45
DerivedKey(pw, salt) ==
    PBKDF2HMAC(Utf8Encode(pw), salt, KDF_ITERATIONS, KDF_LENGTH)

\* a decryptor fed only when the tag has the conventional length
CipherInputCheckedTag(ciphertext, tag) ==
    IF Len(tag) = TagLen THEN ciphertext \o tag ELSE <<>>

\* line 49: ciphertext + tag
CipherInput(ciphertext, tag) == ciphertext \o tag

\* bytes.decode('utf-8', errors='ignore'): never raises
ReturnTextLenient(bytes) ==
    LET r == Utf8Decode(bytes)
    IN  [ok |-> TRUE, text |-> r.text]

\* line 52: decrypted_data.decode('utf-8')
ReturnText(bytes) == Utf8Decode(bytes)

\* an except chain without the InvalidTag clause
HandlerGenericOnly(exc) ==
    IF exc = "FileNotFoundError" THEN "FileNotFoundError" ELSE "Exception"

\* lines 54-64: the except clause that catches an exception
Handler(exc) ==
    IF exc = "FileNotFoundError" THEN "FileNotFoundError"
    ELSE IF exc = "InvalidTag" THEN "InvalidTag"
    ELSE "Exception"

\* what the catching clause prints
Diagnostic(p, exc, err) ==
    CASE Handler(exc) = "FileNotFoundError" ->
           <<"Error: File not found at", path[p]>>
      [] Handler(exc) = "InvalidTag" ->
           <<"Decryption Failed: Incorrect password or corrupted data.">>
      [] OTHER -> <<"An unexpected error occurred:", err>>

\* the clause prints and re-raises: the call ends with the exception
Raised(p, exc, err, line) ==
    /\ result' = [result EXCEPT ![p] =
            [kind |-> "raise", exc |-> exc, err |-> err,
             handler |-> Handler(exc), line |-> line, value |-> <<>>]]
    /\ printed' = [printed EXCEPT ![p] = Append(@, Diagnostic(p, exc, err))]
    /\ pc' = [pc EXCEPT ![p] = "done"]

\* a with block that closes the file on its normal exit only
ExitWithLeak(p, raising) ==
    IF raising THEN handle ELSE [handle EXCEPT ![p] = "closed"]

\* leaving the with block, normally or by an exception, closes the file
ExitWith(p, raising) == [handle EXCEPT ![p] = "closed"]

\* a key kept in one module-level slot that every call writes and reads
StoreKeyShared(p, key) ==
    [q \in Calls |-> [frame[q] EXCEPT !.key = key]]

\* line 45: key is a local of the call
StoreKey(p, key) == [frame EXCEPT ![p].key = key]

Busy(p) == pc[p] \notin {"idle", "open", "done"}

Step(p) ==
    overlapped' = (overlapped \/ \E q \in Calls \ {p} : Busy(q))

\* line 29: open(encrypted_json_path, 'r')
Open(p) ==
    /\ pc[p] = "open"
    /\ trace' = [trace EXCEPT ![p] = Append(@, "open")]
    /\ Step(p)
    /\ LET f == fs[path[p]]
       IN  CASE f.state = "absent" ->
                  /\ Raised(p, "FileNotFoundError", "No such file or directory", 29)
                  /\ UNCHANGED handle
             [] f.state = "denied" ->
                  /\ Raised(p, "PermissionError", "Permission denied", 29)
                  /\ UNCHANGED handle
             [] OTHER ->
                  /\ handle' = [handle EXCEPT ![p] = "open"]
                  /\ pc' = [pc EXCEPT ![p] = "load"]
                  /\ UNCHANGED <<result, printed>>
    /\ UNCHANGED <<fs, made, path, password, frame, cacheVars>>

\* line 30: data = json.load(f)
LoadJson(p) ==
    /\ pc[p] = "load"
    /\ trace' = [trace EXCEPT ![p] = Append(@, "json.load")]
    /\ Step(p)
    /\ LET f == fs[path[p]]
       IN  IF ~f.json
           THEN /\ Raised(p, "JSONDecodeError", "Expecting value", 30)
                /\ handle' = ExitWith(p, TRUE)
                /\ UNCHANGED frame
           ELSE /\ frame' = [frame EXCEPT ![p].data = f.doc]
                /\ pc' = [pc EXCEPT ![p] = "fields"]
                /\ UNCHANGED <<result, printed, handle>>
    /\ UNCHANGED <<fs, made, path, password, cacheVars>>

\* lines 32-35 and the end of the with block
FieldsRead(p, r) ==
    /\ trace' = [trace EXCEPT ![p] = @ \o r.calls]
    /\ frame' = [frame EXCEPT ![p] =
          [@ EXCEPT !.salt = r.vals["salt"], !.nonce = r.vals["nonce"],
                    !.tag = r.vals["tag"],
                    !.ciphertext = r.vals["ciphertext"]]]
    /\ handle' = ExitWith(p, ~r.ok)
    /\ IF ~r.ok
       THEN Raised(p, r.exc, r.err, r.line)
       ELSE /\ pc' = [pc EXCEPT ![p] = "derive"]
            /\ UNCHANGED <<result, printed>>

ReadFields(p) ==
    /\ pc[p] = "fields"
    /\ Step(p)
    /\ FieldsRead(p, DecodeFields(frame[p].data))
    /\ UNCHANGED <<fs, made, path, password, cacheVars>>

\* lines 39-45: kdf = PBKDF2HMAC(...); key = kdf.derive(password.encode('utf-8'))
DeriveKey(p) ==
    /\ pc[p] = "derive"
    /\ trace' = [trace EXCEPT ![p] = Append(@, "kdf.derive")]
    /\ Step(p)
    /\ frame' = StoreKey(p, DerivedKey(password[p], frame[p].salt))
    /\ pc' = [pc EXCEPT ![p] = "decrypt"]
    /\ UNCHANGED <<fs, made, path, password, handle, result, printed, cacheVars>>

Decrypted(p, r) ==
    IF ~r.ok
    THEN /\ Raised(p, r.exc, r.err, 49)
         /\ UNCHANGED frame
    ELSE /\ frame' = [frame EXCEPT ![p].decrypted_data = r.bytes]
         /\ pc' = [pc EXCEPT ![p] = "return"]
         /\ UNCHANGED <<result, printed>>

\* lines 48-49: decrypted_data = AESGCM(key).decrypt(nonce, ciphertext + tag, None)
Decrypt(p) ==
    /\ pc[p] = "decrypt"
    /\ trace' = [trace EXCEPT ![p] = Append(@, "aesgcm.decrypt")]
    /\ Step(p)
    /\ Decrypted(p, AESGCM_decrypt(frame[p].key, frame[p].nonce,
                        CipherInput(frame[p].ciphertext, frame[p].tag)))
    /\ UNCHANGED <<fs, made, path, password, handle, cacheVars>>

Returned(p, r) ==
    IF ~r.ok
    THEN Raised(p, "UnicodeDecodeError", "invalid utf-8", 52)
    ELSE /\ result' = [result EXCEPT ![p] =
               [kind |-> "return", exc |-> "", err |-> "", handler |-> "",
                line |-> 52, value |-> r.text]]
         /\ pc' = [pc EXCEPT ![p] = "done"]
         /\ UNCHANGED printed

\* line 52: return decrypted_data.decode('utf-8')
Return(p) ==
    /\ pc[p] = "return"
    /\ trace' = [trace EXCEPT ![p] = Append(@, "decode")]
    /\ Step(p)
    /\ Returned(p, ReturnText(frame[p].decrypted_data))
    /\ UNCHANGED <<fs, made, path, password, handle, frame, cacheVars>>

(***************************************************************************)
(* app.py: the request cache of POST /api/v2/analyze.  The server handles  *)
(* each request on a thread of its own, so the statements of two handlers  *)
(* interleave.                                                             *)
(***************************************************************************)
Threads == {1, 2}

Keys == 1..(MAX_CACHE_SIZE + ExtraKeys)

NoKeyYet == 0

IdleThread ==
    [pc |-> "idle", cache_key |-> NoKeyYet, oldest_key |-> NoKeyYet,
     response |-> 0, served |-> 0, status |-> 0, body |-> 0]

InCache(k) == \E i \in 1..Len(request_cache) : request_cache[i] = k

RemoveKey(seq, k) == SelectSeq(seq, LAMBDA x : x # k)

Respond(t, status, body) ==
    thread' = [thread EXCEPT ![t] =
        [@ EXCEPT !.pc = "idle", !.status = status, !.body = body,
                  !.served = @ + 1]]

\* lines 111-118: a request without a ticker is answered 400, otherwise the
\* cache key is built from ticker and timeframe
Receive(t) ==
    /\ thread[t].pc = "idle"
    /\ thread[t].served < MaxRequests
    /\ \/ Respond(t, 400, 0)
       \/ \E k \in Keys :
            thread' = [thread EXCEPT ![t] =
                [@ EXCEPT !.pc = "lookup", !.cache_key = k,
                          !.oldest_key = NoKeyYet, !.response = 0]]
    /\ UNCHANGED <<request_cache, stored, nextResponse, decryptVars>>

\* lines 119-121: a hit returns the stored response
CacheLookup(t) ==
    /\ thread[t].pc = "lookup"
    /\ IF InCache(thread[t].cache_key)
       THEN Respond(t, 200, stored[thread[t].cache_key])
       ELSE thread' = [thread EXCEPT ![t].pc = "analyze"]
    /\ UNCHANGED <<request_cache, stored, nextResponse, decryptVars>>

\* lines 123-131: a new analysis, different each time
Analyze(t) ==
    /\ thread[t].pc = "analyze"
    /\ nextResponse' = nextResponse + 1
    /\ thread' = [thread EXCEPT ![t] =
          [@ EXCEPT !.pc = "size", !.response = nextResponse]]
    /\ UNCHANGED <<request_cache, stored, decryptVars>>

\* line 134: if len(request_cache) >= MAX_CACHE_SIZE
CheckSize(t) ==
    /\ thread[t].pc = "size"
    /\ thread' = [thread EXCEPT ![t].pc =
          IF Len(request_cache) >= MAX_CACHE_SIZE THEN "oldest" ELSE "insert"]
    /\ UNCHANGED <<request_cache, stored, nextResponse, decryptVars>>

\* line 136: oldest_key = next(iter(request_cache)); StopIteration on an
\* empty cache is caught at line 144 and answered 500
TakeOldest(t) ==
    /\ thread[t].pc = "oldest"
    /\ IF request_cache = <<>>
       THEN Respond(t, 500, 0)
       ELSE thread' = [thread EXCEPT ![t] =
               [@ EXCEPT !.pc = "pop", !.oldest_key = Head(request_cache)]]
    /\ UNCHANGED <<request_cache, stored, nextResponse, decryptVars>>

\* line 137: request_cache.pop(oldest_key); KeyError is answered 500
PopOldest(t) ==
    /\ thread[t].pc = "pop"
    /\ IF InCache(thread[t].oldest_key)
       THEN /\ request_cache' = RemoveKey(request_cache, thread[t].oldest_key)
            /\ thread' = [thread EXCEPT ![t].pc = "insert"]
       ELSE /\ Respond(t, 500, 0)
            /\ UNCHANGED request_cache
    /\ UNCHANGED <<stored, nextResponse, decryptVars>>

\* lines 140-142: request_cache[cache_key] = response; return it
Insert(t) ==
    /\ thread[t].pc = "insert"
    /\ request_cache' =
          IF InCache(thread[t].cache_key) THEN request_cache
          ELSE Append(request_cache, thread[t].cache_key)
    /\ stored' = [stored EXCEPT ![thread[t].cache_key] = thread[t].response]
    /\ Respond(t, 200, thread[t].response)
    /\ UNCHANGED <<nextResponse, decryptVars>>

(***************************************************************************)
(* Specifications.                                                         *)
(***************************************************************************)
CacheInit ==
    /\ request_cache = <<>>
    /\ stored = [k \in Keys |-> 0]
    /\ thread = [t \in Threads |-> IdleThread]
    /\ nextResponse = 1

CallsInit ==
    /\ handle = [p \in Calls |-> "none"]
    /\ frame = [p \in Calls |-> EmptyFrame]
    /\ result = [p \in Calls |-> NoResult]
    /\ printed = [p \in Calls |-> <<>>]
    /\ trace = [p \in Calls |-> <<>>]
    /\ overlapped = FALSE

\* one call, on a file of any variant
Init ==
    /\ \E pt \in Plaintexts, pw \in Passwords :
         \E v \in {x \in Variants : Applicable(x, pt)} :
            /\ made = [pt |-> pt, pw |-> pw,
                       variant |-> [f \in Paths |->
                                      IF f = "a" THEN v ELSE "absent"]]
            /\ fs = [f \in Paths |->
                       IF f = "a" THEN VariantFile(v, pt, pw) ELSE AbsentFile]
    /\ path = [p \in Calls |-> "a"]
    /\ password \in {[p \in Calls |-> w] : w \in Passwords}
    /\ pc = [p \in Calls |-> IF p = 1 THEN "open" ELSE "idle"]
    /\ CallsInit
    /\ CacheInit

ConcPlaintexts == {<<>>, <<195, 169>>, <<195>>}

ConcVariants == {"genuine", "shift_left", "shift_right", "flip_tag", "no_tag",
                 "absent"}

\* two concurrent calls, each on one of two files
ConcInit ==
    /\ \E pt \in ConcPlaintexts :
         \E va, vb \in {x \in ConcVariants : Applicable(x, pt)} :
            /\ made = [pt |-> pt, pw |-> Pw1234,
                       variant |-> [f \in Paths |-> IF f = "a" THEN va ELSE vb]]
            /\ fs = [f \in Paths |->
                       VariantFile(IF f = "a" THEN va ELSE vb, pt, Pw1234)]
    /\ path \in [Calls -> Paths]
    /\ password \in [Calls -> Passwords]
    /\ pc = [p \in Calls |-> "open"]
    /\ CallsInit
    /\ CacheInit

\* no decrypt call, the request handlers only
ServerInit ==
    /\ made = [pt |-> <<>>, pw |-> Pw1234, variant |-> [f \in Paths |-> "absent"]]
    /\ fs = [f \in Paths |-> AbsentFile]
    /\ path = [p \in Calls |-> "a"]
    /\ password = [p \in Calls |-> Pw1234]
    /\ pc = [p \in Calls |-> "idle"]
    /\ CallsInit
    /\ CacheInit

Next ==
    \E p \in Calls :
        \/ Open(p)
        \/ LoadJson(p)
        \/ ReadFields(p)
        \/ DeriveKey(p)
        \/ Decrypt(p)
        \/ Return(p)

ServerNext ==
    \E t \in Threads :
        \/ Receive(t)
        \/ CacheLookup(t)
        \/ Analyze(t)
        \/ CheckSize(t)
        \/ TakeOldest(t)
        \/ PopOldest(t)
        \/ Insert(t)

Spec == Init /\ [][Next]_vars

ConcSpec == ConcInit /\ [][Next]_vars

ServerSpec == ServerInit /\ [][ServerNext]_vars

(***************************************************************************)
(* What the claims speak of.                                               *)
(***************************************************************************)
Done(p) == pc[p] = "done"

File(p) == fs[path[p]]

Variant(p) == made.variant[path[p]]

Raise(exc, err, line, handler) ==
    [kind |-> "raise", exc |-> exc, err |-> err, handler |-> handler,
     line |-> line, value |-> <<>>]

Returns(text) ==
    [kind |-> "return", exc |-> "", err |-> "", handler |-> "", line |-> 52,
     value |-> text]

\* the one signal of a failed authentication, and the one line printed with it
AuthenticationFailure == Raise("InvalidTag", "", 49, "InvalidTag")

AuthenticationDiagnostic ==
    <<<<"Decryption Failed: Incorrect password or corrupted data.">>>>

\* the error kinds of the design, read off the exception a call ends with
ErrorKind(r) ==
    CASE r.exc \in {"FileNotFoundError", "PermissionError"} /\ r.line = 29 ->
           "SourceUnavailable"
      [] r.exc \in {"JSONDecodeError", "KeyError", "TypeError", "binascii.Error",
                    "ValueError"} /\ r.line \in 30..35 ->
           "MalformedEnvelope"
      [] r.exc = "InvalidTag" -> "AuthenticationFailure"
      [] OTHER -> "Other"

InTrace(p, call) == \E i \in 1..Len(trace[p]) : trace[p][i] = call

\* all four fields of the file are present and decodable as base64
WellFormed(f) ==
    /\ f.state = "present" /\ f.json /\ f.doc.t = "object"
    /\ \A k \in FieldSet : LookupAndDecode(f.doc, k).ok

\* the envelope a well-formed file holds
Parsed(f) == [k \in FieldSet |-> LookupAndDecode(f.doc, k).bytes]

\* a field is missing from the JSON object of the file
FieldMissing(f) ==
    /\ f.state = "present" /\ f.json /\ f.doc.t = "object"
    /\ \E k \in FieldSet : k \notin DOMAIN f.doc.members

\* the key the password of a call yields with the salt of its envelope
KeyFor(pw, env) ==
    PBKDF2HMAC(Utf8Encode(pw), env["salt"], KDF_ITERATIONS, KDF_LENGTH)

\* the tag of the envelope verifies against (key, nonce, ciphertext)
Verifies(pw, env) ==
    /\ Len(env["tag"]) = TagLen
    /\ env["tag"] = GcmTag(KeyFor(pw, env), env["nonce"], env["ciphertext"])

\* the last TagLen bytes of ciphertext + tag verify against the bytes before
VerifiesJoined(pw, env) ==
    TagVerifies(KeyFor(pw, env), env["nonce"], env["ciphertext"] \o env["tag"])

NonceAccepted(env) ==
    Len(env["nonce"]) >= NonceMin /\ Len(env["nonce"]) <= NonceMax

\* the plaintext bytes the cipher releases for an envelope that verifies
Opened(pw, env) ==
    GcmCtr(KeyFor(pw, env), env["nonce"],
           SubSeq(env["ciphertext"] \o env["tag"], 1,
                  Len(env["ciphertext"]) + Len(env["tag"]) - TagLen))

\* salt, nonce or tag of another length than 16, 12, 16 bytes, or less
\* sealed data than a tag
Unconventional(env) ==
    \/ Len(env["salt"]) # 16
    \/ Len(env["nonce"]) # 12
    \/ Len(env["tag"]) # TagLen
    \/ Len(env["ciphertext"]) + Len(env["tag"]) < TagLen

\* the file was made by the producer, with the password the call uses
ProducedFor(p) ==
    /\ Variant(p) \in {"genuine", "made_salt8", "made_nonce13"}
    /\ password[p] = made.pw

\* the causes of a failed authentication the envelope leaves well formed
AuthenticationCause(p) ==
    \/ Variant(p) = "genuine" /\ password[p] # made.pw
    \/ Variant(p) \in {"flip_ct", "flip_ct_last", "flip_tag", "flip_tag_last",
                       "flip_nonce"}

\* the outcome of a call that runs alone on file f with password pw
AloneDecoded(t) ==
    IF t.ok THEN Returns(t.text)
    ELSE Raise("UnicodeDecodeError", "invalid utf-8", 52, "Exception")

AloneDecrypted(r) ==
    IF r.ok THEN AloneDecoded(Utf8Decode(r.bytes))
    ELSE Raise(r.exc, r.err, 49,
               IF r.exc = "InvalidTag" THEN "InvalidTag" ELSE "Exception")

AloneParsed(r, pw) ==
    IF ~r.ok THEN Raise(r.exc, r.err, r.line, "Exception")
    ELSE AloneDecrypted(
            AESGCM_decrypt(KeyFor(pw, r.vals), r.vals["nonce"],
                           r.vals["ciphertext"] \o r.vals["tag"]))

Alone(f, pw) ==
    CASE f.state = "absent" ->
           Raise("FileNotFoundError", "No such file or directory", 29,
                 "FileNotFoundError")
      [] f.state = "denied" ->
           Raise("PermissionError", "Permission denied", 29, "Exception")
      [] f.state = "present" /\ ~f.json ->
           Raise("JSONDecodeError", "Expecting value", 30, "Exception")
      [] OTHER -> AloneParsed(DecodeFields(f.doc), pw)

(***************************************************************************)
(* The claims.                                                             *)
(***************************************************************************)

\* C1: a call holds or returns a plaintext only if the decryptor verified the
\* tag against the derived key, the nonce and the ciphertext; whenever the
\* verification fails the call ends raising, and no plaintext, whole or
\* partial, is kept or returned.
C1_PlaintextOnlyIfTagVerifies ==
    \A p \in Calls :
        /\ (pc[p] = "return" \/ result[p].kind = "return") =>
              /\ WellFormed(File(p))
              /\ VerifiesJoined(password[p], Parsed(File(p)))
        /\ (Done(p) /\ WellFormed(File(p))
              /\ ~VerifiesJoined(password[p], Parsed(File(p)))) =>
              /\ result[p].kind = "raise"
              /\ result[p].value = <<>>
              /\ frame[p].decrypted_data = <<>>

C1_Witness ==
    \E p \in Calls :
        /\ Done(p) /\ InTrace(p, "aesgcm.decrypt")
        /\ ~VerifiesJoined(password[p], Parsed(File(p)))
        /\ result[p] = AuthenticationFailure

\* C2 as stated: every call that fails ends in SourceUnavailable,
\* MalformedEnvelope or AuthenticationFailure, never in a fourth kind.
C2_OnlyThreeKinds ==
    \A p \in Calls :
        (Done(p) /\ result[p].kind = "raise") =>
            ErrorKind(result[p]) \in
                {"SourceUnavailable", "MalformedEnvelope", "AuthenticationFailure"}

\* C2 amended: a call that fails ends in SourceUnavailable (the file is absent
\* or unreadable), MalformedEnvelope (a field is missing or undecodable),
\* AuthenticationFailure (the tag does not verify), or in one of two further
\* kinds that the generic handler reports: ValueError from the cipher when the
\* nonce has fewer than 8 or more than 128 bytes, and UnicodeDecodeError after
\* the tag verified when the plaintext is not valid UTF-8; and a verified
\* plaintext that is not valid UTF-8 always ends in the latter.
C2_ErrorKinds ==
    \A p \in Calls :
        /\ (Done(p) /\ result[p].kind = "raise") =>
            \/ /\ ErrorKind(result[p]) = "SourceUnavailable"
               /\ File(p).state \in {"absent", "denied"}
               /\ result[p].handler =
                     IF File(p).state = "absent" THEN "FileNotFoundError"
                     ELSE "Exception"
            \/ /\ ErrorKind(result[p]) = "MalformedEnvelope"
               /\ File(p).state = "present" /\ ~WellFormed(File(p))
               /\ result[p].handler = "Exception"
            \/ /\ ErrorKind(result[p]) = "AuthenticationFailure"
               /\ WellFormed(File(p)) /\ NonceAccepted(Parsed(File(p)))
               /\ ~VerifiesJoined(password[p], Parsed(File(p)))
               /\ result[p].handler = "InvalidTag"
            \/ /\ result[p].exc = "ValueError" /\ result[p].line = 49
               /\ WellFormed(File(p)) /\ ~NonceAccepted(Parsed(File(p)))
               /\ result[p].handler = "Exception"
            \/ /\ result[p].exc = "UnicodeDecodeError" /\ result[p].line = 52
               /\ WellFormed(File(p)) /\ NonceAccepted(Parsed(File(p)))
               /\ VerifiesJoined(password[p], Parsed(File(p)))
               /\ result[p].handler = "Exception"
        /\ (Done(p) /\ WellFormed(File(p)) /\ NonceAccepted(Parsed(File(p)))
              /\ VerifiesJoined(password[p], Parsed(File(p)))
              /\ ~Utf8Decode(Opened(password[p], Parsed(File(p)))).ok) =>
            /\ result[p].kind = "raise"
            /\ result[p].exc = "UnicodeDecodeError"

C2_Witness ==
    \E p \in Calls :
        /\ Done(p) /\ result[p].exc = "UnicodeDecodeError"
        /\ VerifiesJoined(password[p], Parsed(File(p)))
        /\ ErrorKind(result[p]) = "Other"

C4_LengthsFailAuthentication ==
    \A p \in Calls :
        (Done(p) /\ WellFormed(File(p)) /\ Unconventional(Parsed(File(p)))) =>
            result[p] = AuthenticationFailure

\* C4 amended: field lengths are never rejected at parse time: for a
\* well-formed envelope with a field of unconventional length the four fields
\* are decoded and the key is derived; the call then fails with ValueError
\* when the nonce has fewer than 8 or more than 128 bytes, fails with
\* AuthenticationFailure when the last 16 bytes of ciphertext + tag do not
\* verify, and otherwise goes on to line 52 as for any envelope that verifies.
C4_LengthsNotRejectedAtParse ==
    \A p \in Calls :
        (Done(p) /\ WellFormed(File(p)) /\ Unconventional(Parsed(File(p)))) =>
            /\ InTrace(p, "kdf.derive") /\ InTrace(p, "aesgcm.decrypt")
            /\ ErrorKind(result[p]) # "MalformedEnvelope"
            /\ ~NonceAccepted(Parsed(File(p))) =>
                  result[p] = Raise("ValueError",
                                    "Nonce must be between 8 and 128 bytes",
                                    49, "Exception")
            /\ (NonceAccepted(Parsed(File(p)))
                  /\ ~VerifiesJoined(password[p], Parsed(File(p)))) =>
                  result[p] = AuthenticationFailure
            /\ (NonceAccepted(Parsed(File(p)))
                  /\ VerifiesJoined(password[p], Parsed(File(p)))) =>
                  result[p].line = 52

C4_Witness ==
    \E p \in Calls :
        /\ Done(p) /\ Variant(p) = "nonce7"
        /\ WellFormed(File(p)) /\ Unconventional(Parsed(File(p)))
        /\ result[p].exc = "ValueError" /\ result[p].line = 49

\* C5: when the JSON object lacks one of salt, nonce, tag, ciphertext, the
\* call fails with MalformedEnvelope and neither the key derivation nor the
\* decryptor is ever invoked; in any call the four fields are decoded before
\* the key is derived.
C5_MissingFieldNeverReachesDecryptor ==
    \A p \in Calls :
        /\ FieldMissing(File(p)) =>
              /\ ~InTrace(p, "kdf.derive")
              /\ ~InTrace(p, "aesgcm.decrypt")
              /\ Done(p) => /\ result[p].kind = "raise"
                            /\ result[p].exc = "KeyError"
                            /\ ErrorKind(result[p]) = "MalformedEnvelope"
        /\ InTrace(p, "kdf.derive") =>
              Len(SelectSeq(trace[p], LAMBDA c : c = "b64decode"))
                 = Len(FieldNames)

C5_Witness ==
    \E p \in Calls :
        /\ Done(p) /\ Variant(p) = "no_tag" /\ FieldMissing(File(p))
        /\ result[p].exc = "KeyError" /\ result[p].err = "tag"

\* C6 as stated: for any plaintext bytes P and the password of the producer,
\* the call succeeds and returns exactly P.
C6_RoundTripAnyBytes ==
    \A p \in Calls :
        (Done(p) /\ ProducedFor(p)) =>
            /\ result[p].kind = "return"
            /\ Utf8Encode(result[p].value) = made.pt

\* C6 amended: for any plaintext P that is valid UTF-8, the empty one
\* included, and the password of the producer, the call succeeds and returns
\* the text whose UTF-8 encoding is exactly P; for a plaintext that is not
\* valid UTF-8 it raises UnicodeDecodeError after the tag verified.
C6_RoundTripUtf8 ==
    \A p \in Calls :
        (Done(p) /\ ProducedFor(p)) =>
            IF Utf8Decode(made.pt).ok
            THEN /\ result[p].kind = "return"
                 /\ Utf8Encode(result[p].value) = made.pt
            ELSE /\ result[p].kind = "raise"
                 /\ result[p].exc = "UnicodeDecodeError"

C6_Witness ==
    \E p \in Calls :
        /\ Done(p) /\ ProducedFor(p) /\ Variant(p) = "genuine"
        /\ made.pt = <<195, 169>>
        /\ result[p] = Returns(<<233>>)

\* C7: the file a call opened is closed on every exit path: when the call
\* has ended, by a return or by an exception of any statement, and already
\* when it leaves the with block.
C7_FileClosedOnEveryExit ==
    \A p \in Calls :
        /\ Done(p) =>
              handle[p] = IF File(p).state = "present" THEN "closed" ELSE "none"
        /\ pc[p] \in {"derive", "decrypt", "return"} => handle[p] = "closed"

C7_Witness ==
    \E p \in Calls :
        /\ Done(p) /\ result[p].kind = "raise" /\ result[p].line \in 30..35
        /\ handle[p] = "closed"

\* C8: under any interleaving of two calls, the outcome of each is the
\* outcome of the call run alone, and two calls on the same envelope with the
\* same password end alike.
C8_CallsIndependent ==
    /\ \A p \in Calls :
          Done(p) => result[p] = Alone(File(p), password[p])
    /\ \A p, q \in Calls :
          (Done(p) /\ Done(q) /\ File(p) = File(q)
             /\ password[p] = password[q]) => result[p].kind = result[q].kind
                                              /\ result[p].exc = result[q].exc
                                              /\ result[p].value = result[q].value

C8_Witness ==
    /\ overlapped
    /\ \A p \in Calls : Done(p)
    /\ path[1] = path[2] /\ password[1] # password[2]
    /\ result[1].kind = "return" /\ result[2] = AuthenticationFailure

\* C9: the outcome depends on ciphertext and tag through ciphertext + tag
\* only: two well-formed envelopes with the same salt and nonce whose
\* ciphertext and tag concatenate to the same bytes end alike under the same
\* password.
C9_SplitNotAuthenticated ==
    \A p, q \in Calls :
        (/\ Done(p) /\ Done(q) /\ password[p] = password[q]
         /\ WellFormed(File(p)) /\ WellFormed(File(q))
         /\ Parsed(File(p))["salt"] = Parsed(File(q))["salt"]
         /\ Parsed(File(p))["nonce"] = Parsed(File(q))["nonce"]
         /\ Parsed(File(p))["ciphertext"] \o Parsed(File(p))["tag"]
              = Parsed(File(q))["ciphertext"] \o Parsed(File(q))["tag"]) =>
            /\ result[p] = result[q]
            /\ printed[p] = printed[q]

C9_Witness ==
    \E p, q \in Calls :
        /\ Done(p) /\ Done(q) /\ password[p] = password[q]
        /\ Variant(p) = "genuine" /\ Variant(q) = "shift_left"
        /\ Parsed(File(p))["tag"] # Parsed(File(q))["tag"]
        /\ Parsed(File(p))["ciphertext"] \o Parsed(File(p))["tag"]
             = Parsed(File(q))["ciphertext"] \o Parsed(File(q))["tag"]
        /\ result[p].kind = "return" /\ result[q] = result[p]

\* C10: request_cache never holds more than MAX_CACHE_SIZE entries, also when
\* the handlers of concurrent requests interleave.
C10_CacheBounded == Len(request_cache) <= MAX_CACHE_SIZE

====
